---- MODULE Spec2Model ----
(***************************************************************************)
(* The Cloudflare Worker of doordash-fifty-alert: the edge HTTP handler    *)
(* that forwards subscribe / unsubscribe / feedback requests to the Resend *)
(* API.  The repository holds four revisions of the worker:                *)
(*   "part_000"     src/unnamed/part_000          signup+unsubscribe+feedback *)
(*   "worker_index" src/worker/index.js           signup+feedback          *)
(*   "part_001a"    src/unnamed/part_001:1-306    signup+unsubscribe       *)
(*   "part_001b"    src/unnamed/part_001:308-405  signup only              *)
(* One behaviour of the model is one deployed revision handling client     *)
(* requests one after the other.  A request is handled in two steps: from  *)
(* its arrival up to the await of the provider call, and from the          *)
(* provider's answer to the response.                                      *)
(*                                                                         *)
(* JavaScript strings are sequences of one-character strings; JSON values  *)
(* are records [k, s] with k the kind of the value.                        *)
(***************************************************************************)
EXTENDS Integers, Sequences, FiniteSets, TLC

\* ---------------------------------------------------------------- bounds
MaxLen == 3          \* longest e-mail string a client sends
MaxWords == 3        \* longest provider error message, in words

\* --------------------------------------------------------------- strings
Chars == {"a", "A", "@", " "}

Strs(n) == UNION {[1..k -> Chars] : k \in 0..n}

Words == {"already", "exists"}

WordSeqs(n) == UNION {[1..k -> Words] : k \in 0..n}

SetMin(S) == CHOOSE x \in S : \A y \in S : x <= y
SetMax(S) == CHOOSE x \in S : \A y \in S : x >= y

\* the white space String.prototype.trim strips
WhiteSpace == {" ", "\n"}

\* String.prototype.trim
Trim(s) ==
    LET ns == {i \in 1..Len(s) : s[i] \notin WhiteSpace}
    IN  IF ns = {} THEN <<>> ELSE SubSeq(s, SetMin(ns), SetMax(ns))

\* String.prototype.toLowerCase
ToLowerCase(s) == [i \in 1..Len(s) |-> IF s[i] = "A" THEN "a" ELSE s[i]]

\* String.prototype.includes
Includes(s, t) == \E i \in 0..(Len(s) - Len(t)) : SubSeq(s, i + 1, i + Len(t)) = t

\* Array.prototype.includes, on an array of one-character strings
ArrayIncludes(s, c) == \E i \in 1..Len(s) : s[i] = c

RECURSIVE encodeURIComponent(_)
encodeURIComponent(s) ==
    IF s = <<>> THEN <<>>
    ELSE (CASE Head(s) = "@" -> <<"%", "4", "0">>
            [] Head(s) = " " -> <<"%", "2", "0">>
            [] OTHER -> <<Head(s)>>) \o encodeURIComponent(Tail(s))

\* ----------------------------------------------------------- JSON values
JsUndef == [k |-> "undef", s |-> <<>>]
JsNull  == [k |-> "null",  s |-> <<>>]
JsZero  == [k |-> "zero",  s |-> <<>>]     \* 0 / false: falsy, not nullish
JsNum   == [k |-> "num",   s |-> <<>>]     \* 123 / true / {}: truthy, no string methods
JsArr(s) == [k |-> "arr", s |-> s]         \* an array of one-character strings
JsStr(s) == [k |-> "str", s |-> s]

Truthy(v) ==
    CASE v.k \in {"undef", "null", "zero"} -> FALSE
      [] v.k = "str" -> v.s # <<>>
      [] OTHER -> TRUE

Nullish(v) == v.k \in {"undef", "null"}

\* the request body as request.json() yields it
BadJson  == [k |-> "badjson", email |-> JsUndef, message |-> JsUndef, type |-> JsUndef]
BodyNull == [k |-> "null",    email |-> JsUndef, message |-> JsUndef, type |-> JsUndef]
BodyPrim == [k |-> "prim",    email |-> JsUndef, message |-> JsUndef, type |-> JsUndef]
BodyObj(e, m, t) == [k |-> "obj", email |-> e, message |-> m, type |-> t]

NonStrings == {JsUndef, JsNull, JsZero, JsNum, JsArr(<<>>), JsArr(<<"@">>)}

EmailVals == NonStrings \cup {JsStr(s) : s \in Strs(MaxLen)}

FewEmailVals == {JsUndef, JsNum, JsStr(<<"a", "@", "a">>), JsStr(<<"<", "@", "'">>)}

\* the characters escapeHtml and the newline replacement tell apart
FeedbackChars == {"a", " ", "\n", "&", "<", ">", "\"", "'"}

MsgVals ==
    {JsUndef, JsNum, JsStr(<<>>), JsStr(<<"a", "a">>), JsStr(<<" ", "a", "a", " ">>),
     JsStr(<<"\n", "a", "a">>), JsStr(<<"a", "a", "a">>), JsStr(<<"<", "\n", ">">>)}
    \cup {JsStr(<<"a", c, "a">>) : c \in FeedbackChars}

TypeVals == {JsUndef, JsNum, JsStr(<<"a">>), JsStr(<<"<", "&">>)}

Bodies ==
    {BadJson, BodyNull, BodyPrim}
    \cup {BodyObj(e, JsUndef, JsUndef) : e \in EmailVals}
    \cup {BodyObj(e, m, t) : e \in FewEmailVals, m \in MsgVals, t \in TypeVals}

Methods == {"GET", "POST", "OPTIONS", "PUT", "DELETE"}
Paths == {"/", "/unsubscribe", "/feedback", "/other"}

\* searchParams.get('email'): null or a string
QueryVals == {JsNull} \cup {JsStr(s) : s \in Strs(MaxLen)}

Requests ==
    {[method |-> "GET", path |-> p, query |-> q, body |-> BadJson] :
        p \in Paths, q \in QueryVals}
    \cup {[method |-> m, path |-> p, query |-> JsNull, body |-> b] :
        m \in Methods \ {"GET"}, p \in Paths, b \in Bodies}

NoReq == [method |-> "none", path |-> "", query |-> JsNull, body |-> BadJson]

Versions == {"part_000", "worker_index", "part_001a", "part_001b"}


\* ------------------------------------------------------------- responses
\* Access-Control-Allow-Methods of CORS_HEADERS in each revision
AllowMethods(v) ==
    IF v \in {"part_000", "part_001a"} THEN "POST, GET, OPTIONS" ELSE "POST, OPTIONS"

CORS_HEADERS(v) == [acao |-> "*", acam |-> AllowMethods(v), acah |-> "Content-Type"]

NoHeaders == [acao |-> "", acam |-> "", acah |-> ""]

Absent == "<absent>"

\* mutant: the success member is left out of the 200 answer
JsonOkNoSuccess(v, msg) ==
    [status |-> 200, cors |-> CORS_HEADERS(v), ctype |-> "application/json",
     kind |-> "json", success |-> Absent, message |-> msg, error |-> Absent]

\* new Response(JSON.stringify({success: true, message}), {status: 200, ...})
JsonOk(v, msg) ==
    [status |-> 200, cors |-> CORS_HEADERS(v), ctype |-> "application/json",
     kind |-> "json", success |-> "true", message |-> msg, error |-> Absent]

\* new Response(JSON.stringify({error}), {status, ...})
JsonError(v, st, err) ==
    [status |-> st, cors |-> CORS_HEADERS(v), ctype |-> "application/json",
     kind |-> "json", success |-> Absent, message |-> Absent, error |-> err]

\* new Response(null, {headers: CORS_HEADERS}): status defaults to 200
Preflight(v) ==
    [status |-> 200, cors |-> CORS_HEADERS(v), ctype |-> Absent,
     kind |-> "empty", success |-> Absent, message |-> Absent, error |-> Absent]

\* mutant: the form is returned with its Content-Type only
HtmlFormNoCors(v) ==
    [status |-> 200, cors |-> NoHeaders, ctype |-> "text/html",
     kind |-> "html", success |-> Absent, message |-> Absent, error |-> Absent]

\* new Response(getUnsubscribePageHTML(), {headers: {...CORS_HEADERS, text/html}})
HtmlForm(v) ==
    [status |-> 200, cors |-> CORS_HEADERS(v), ctype |-> "text/html",
     kind |-> "html", success |-> Absent, message |-> Absent, error |-> Absent]

NoResp ==
    [status |-> 0, cors |-> NoHeaders, ctype |-> Absent,
     kind |-> "none", success |-> Absent, message |-> Absent, error |-> Absent]

\* ----------------------------------------------------- provider requests
NoHtml == [type |-> <<>>, message |-> <<>>, from |-> <<>>]

NoPReq == [method |-> "none", endpoint |-> "", urlEmail |-> <<>>, email |-> <<>>,
           unsubscribed |-> Absent, to |-> Absent, replyTo |-> JsUndef, html |-> NoHtml]

\* POST /audiences/{id}/contacts  {email, unsubscribed: false}
CreateContact(email) ==
    [method |-> "POST", endpoint |-> "contacts", urlEmail |-> <<>>, email |-> email,
     unsubscribed |-> "false", to |-> Absent, replyTo |-> JsUndef, html |-> NoHtml]

\* PATCH /audiences/{id}/contacts/{encodeURIComponent(cleanEmail)}  {unsubscribed: true}
PatchContact(cleanEmail) ==
    [method |-> "PATCH", endpoint |-> "contacts", urlEmail |-> encodeURIComponent(cleanEmail),
     email |-> <<>>, unsubscribed |-> "true", to |-> Absent, replyTo |-> JsUndef,
     html |-> NoHtml]

\* to: env.ADMIN_EMAIL in part_000, the constant ADMIN_EMAIL in worker/index.js
AdminEmail(v) == IF v = "part_000" THEN "env.ADMIN_EMAIL" ELSE "urielgsn@gmail.com"

\* The html member of the e-mail is a sequence of tokens: a character of the
\* user's text, an entity written by escapeHtml, the '<br>' written for a
\* newline, or a literal of the template.
Entity(c) ==
    CASE c = "&" -> "&amp;"
      [] c = "<" -> "&lt;"
      [] c = ">" -> "&gt;"
      [] c = "\"" -> "&quot;"
      [] c = "'" -> "&#039;"
      [] OTHER -> c

\* escapeHtml(text): text.replace(/[&<>"']/g, (char) => map[char])
escapeHtml(s) == [i \in 1..Len(s) |-> Entity(s[i])]

\* .replace(/\n/g, '<br>')
ReplaceNewlines(s) == [i \in 1..Len(s) |-> IF s[i] = "\n" THEN "<br>" ELSE s[i]]

\* `${x}` of a template literal
Interpolate(x) ==
    CASE x.k = "str" -> x.s
      [] x.k = "undef" -> <<"undefined">>
      [] x.k = "null" -> <<"null">>
      [] x.k = "zero" -> <<"0">>
      [] OTHER -> <<"123">>

\* x || literal
OrElse(x, literal) == IF Truthy(x) THEN x ELSE JsStr(<<literal>>)

\* the three places of the html template that take the user's input:
\* part_000 escapes them, worker/index.js interpolates them as they are
HtmlBody(v, body) ==
    IF v = "part_000"
    THEN [type |-> escapeHtml(OrElse(body.type, "Feedback").s),
          message |-> ReplaceNewlines(escapeHtml(body.message.s)),
          from |-> escapeHtml(OrElse(body.email, "Anonymous").s)]
    ELSE [type |-> Interpolate(OrElse(body.type, "Feedback")),
          message |-> ReplaceNewlines(body.message.s),
          from |-> Interpolate(body.email)]

\* POST /emails  {from, to, reply_to: email || undefined, subject, html, text};
\* of the payload the addressee, reply_to and the html are carried
SendEmail(v, body) ==
    [method |-> "POST", endpoint |-> "emails", urlEmail |-> <<>>, email |-> <<>>,
     unsubscribed |-> Absent, to |-> AdminEmail(v),
     replyTo |-> IF Truthy(body.email) THEN body.email ELSE JsUndef,
     html |-> HtmlBody(v, body)]

\* ------------------------------------------------------ provider answers
\* The provider's answer to the worker's fetch: the call rejects (network
\* error), or it resolves to a status and a body.  The body is unparsable,
\* or the JSON null, or a JSON value without a message member, or an object
\* whose message is m.
ProviderStatuses == {200, 404, 409, 500}

ProviderBodies ==
    {[k |-> "badjson", message |-> JsUndef], [k |-> "null", message |-> JsUndef]}
    \cup {[k |-> "json", message |-> m] :
            m \in {JsUndef, JsNull, JsNum} \cup {JsStr(w) : w \in WordSeqs(MaxWords)}}

NetworkError == [neterr |-> TRUE, status |-> 0, body |-> [k |-> "badjson", message |-> JsUndef]]

ProviderAnswers ==
    {NetworkError}
    \cup {[neterr |-> FALSE, status |-> st, body |-> b] :
            st \in ProviderStatuses, b \in ProviderBodies}

NoAnswer == [neterr |-> FALSE, status |-> 0, body |-> [k |-> "badjson", message |-> JsUndef]]

\* Response.ok
Ok(p) == p.status \in 200..299

ALREADY_EXISTS == <<"already", "exists">>


\* ------------------------------------------------- outcome of a handler
\* What one run of handler code up to its next await comes to: a response,
\* an exception that leaves fetch, or a provider request being awaited.
Respond(r, read, h) ==
    [resp |-> r, escaped |-> "none", preq |-> NoPReq, bodyRead |-> read, handler |-> h]

Throw(exc, read, h) ==
    [resp |-> NoResp, escaped |-> exc, preq |-> NoPReq, bodyRead |-> read, handler |-> h]

Await(q, read, h) ==
    [resp |-> NoResp, escaped |-> "none", preq |-> q, bodyRead |-> read, handler |-> h]

\* ------------------------------------------------------------ handleSignup
\* error instanceof SyntaxError, looked at by the catch of part_001's first
\* worker only
isParseError(v, exc) == v = "part_001a" /\ exc = "SyntaxError"

\* the catch block of handleSignup
SignupCatch(v, exc) ==
    IF isParseError(v, exc)
    THEN JsonError(v, 400, "Invalid request body")
    ELSE JsonError(v, 500, "Server error")

\* if (!email || !email.includes('@'))
InvalidEmail(email) == ~Truthy(email) \/ ~Includes(email.s, <<"@">>)

\* handleSignup up to the await of the provider call
handleSignup(v, body) ==
    IF body.k = "badjson" THEN Respond(SignupCatch(v, "SyntaxError"), TRUE, "signup")
    ELSE IF body.k = "null" THEN Respond(SignupCatch(v, "TypeError"), TRUE, "signup")
    ELSE IF ~Nullish(body.email) /\ body.email.k # "str"
         THEN Respond(SignupCatch(v, "TypeError"), TRUE, "signup")
    ELSE LET email == IF Nullish(body.email) THEN JsUndef
                      ELSE JsStr(ToLowerCase(Trim(body.email.s)))
         IN  IF InvalidEmail(email)
             THEN Respond(JsonError(v, 400, "Invalid email address"), TRUE, "signup")
             ELSE Await(CreateContact(email.s), TRUE, "signup")

\* mutant: the message is compared with 'already exists' instead of searched
AlreadyExistsExact(m) == m = ALREADY_EXISTS

\* result.message?.includes('already exists'), for a string message
AlreadyExists(m) == Includes(m, ALREADY_EXISTS)

\* handleSignup from the provider's answer on
handleSignupReply(v, p) ==
    IF p.neterr THEN SignupCatch(v, "TypeError")
    ELSE IF p.body.k = "badjson" THEN SignupCatch(v, "SyntaxError")
    ELSE IF ~Ok(p)
         THEN IF p.body.k = "null" THEN SignupCatch(v, "TypeError")
              ELSE IF Nullish(p.body.message) THEN JsonError(v, 500, "Failed to subscribe")
              ELSE IF p.body.message.k # "str" THEN SignupCatch(v, "TypeError")
              ELSE IF AlreadyExists(p.body.message.s) THEN JsonOk(v, "Already subscribed!")
              ELSE JsonError(v, 500, "Failed to subscribe")
    ELSE JsonOk(v, "Successfully subscribed!")

\* ------------------------------------------------------- handleUnsubscribe
\* mutant: the address is trimmed but not lower-cased
handleUnsubscribeNoLowerCase(v, email, read) ==
    IF ~Truthy(email)
    THEN Respond(JsonError(v, 400, "Invalid email address"), read, "unsubscribe")
    ELSE IF email.k \notin {"str", "arr"}
         THEN Respond(JsonError(v, 500, "Server error"), read, "unsubscribe")
    ELSE IF email.k = "arr"
         THEN IF ArrayIncludes(email.s, "@")
              THEN Respond(JsonError(v, 500, "Server error"), read, "unsubscribe")
              ELSE Respond(JsonError(v, 400, "Invalid email address"), read, "unsubscribe")
    ELSE IF ~Includes(email.s, <<"@">>)
         THEN Respond(JsonError(v, 400, "Invalid email address"), read, "unsubscribe")
    ELSE Await(PatchContact(Trim(email.s)), read, "unsubscribe")

\* handleUnsubscribe up to the await of the provider call; read tells
\* whether fetch read the request body to get the address
handleUnsubscribe(v, email, read) ==
    IF ~Truthy(email)
    THEN Respond(JsonError(v, 400, "Invalid email address"), read, "unsubscribe")
    ELSE IF email.k \notin {"str", "arr"}
         THEN Respond(JsonError(v, 500, "Server error"), read, "unsubscribe")
    ELSE IF email.k = "arr"
         THEN IF ArrayIncludes(email.s, "@")
              THEN Respond(JsonError(v, 500, "Server error"), read, "unsubscribe")
              ELSE Respond(JsonError(v, 400, "Invalid email address"), read, "unsubscribe")
    ELSE IF ~Includes(email.s, <<"@">>)
         THEN Respond(JsonError(v, 400, "Invalid email address"), read, "unsubscribe")
    ELSE Await(PatchContact(ToLowerCase(Trim(email.s))), read, "unsubscribe")

\* if (response.status === 404)
NotFound(p) == p.status = 404

\* handleUnsubscribe from the provider's answer on
handleUnsubscribeReply(v, p) ==
    IF p.neterr THEN JsonError(v, 500, "Server error")
    ELSE IF ~Ok(p)
         THEN IF p.body.k = "badjson" THEN JsonError(v, 500, "Server error")
              ELSE IF NotFound(p) THEN JsonOk(v, "You have been unsubscribed.")
              ELSE JsonError(v, 500, "Failed to unsubscribe")
    ELSE JsonOk(v, "You have been unsubscribed successfully.")

\* ---------------------------------------------------------- handleFeedback
\* escapeHtml(x) throws on a value that has no replace method
EscapeThrows(v, x) == v = "part_000" /\ Truthy(x) /\ x.k # "str"

\* handleFeedback up to the await of the provider call
handleFeedback(v, body) ==
    IF body.k \in {"badjson", "null"}
    THEN Respond(JsonError(v, 500, "Server error"), TRUE, "feedback")
    ELSE IF ~Truthy(body.message)
         THEN Respond(JsonError(v, 400, "Please enter a message"), TRUE, "feedback")
    ELSE IF body.message.k # "str"
         THEN Respond(JsonError(v, 500, "Server error"), TRUE, "feedback")
    ELSE IF Len(Trim(body.message.s)) < 3
         THEN Respond(JsonError(v, 400, "Please enter a message"), TRUE, "feedback")
    ELSE IF EscapeThrows(v, body.type) \/ EscapeThrows(v, body.email)
         THEN Respond(JsonError(v, 500, "Server error"), TRUE, "feedback")
    ELSE Await(SendEmail(v, body), TRUE, "feedback")

\* handleFeedback from the provider's answer on
handleFeedbackReply(v, p) ==
    IF p.neterr THEN JsonError(v, 500, "Server error")
    ELSE IF ~Ok(p)
         THEN IF p.body.k = "badjson" THEN JsonError(v, 500, "Server error")
              ELSE JsonError(v, 500, "Failed to send feedback")
    ELSE JsonOk(v, "Feedback sent! Thanks for your input.")

\* -------------------------------------------------------------------- fetch
\* mutant: the method is compared with the wrong spelling
IsPreflightLowerCase(method) == method = "options"

\* if (request.method === 'OPTIONS')
IsPreflight(method) == method = "OPTIONS"

\* the revisions whose fetch has the /unsubscribe branch
RoutesUnsubscribe(v) == v \in {"part_000", "part_001a"}

\* the revisions whose fetch has the /feedback branch
RoutesFeedback(v) == v \in {"part_000", "worker_index"}

\* mutant: a plain else, every method but GET takes the POST arm
IsUnsubscribeNotGet(method) == method # "GET"

\* } else if (request.method === 'POST') {  of the /unsubscribe branch
IsUnsubscribePost(method) == method = "POST"

\* if (request.method !== 'POST')
MethodNotAllowed(method) == method # "POST"

\* the POST arm of the /unsubscribe branch: part_000 reads the body outside
\* any try, part_001's first worker inside one
UnsubscribePost(v, body) ==
    IF body.k \in {"badjson", "null"}
    THEN IF v = "part_001a"
         THEN Respond(JsonError(v, 400, "Invalid request body"), TRUE, "none")
         ELSE Throw(IF body.k = "badjson" THEN "SyntaxError" ELSE "TypeError", TRUE, "none")
    ELSE handleUnsubscribe(v, body.email, TRUE)

\* the /unsubscribe branch of fetch
UnsubscribeGet(v, query) ==
    IF Truthy(query)
    THEN handleUnsubscribe(v, query, FALSE)
    ELSE Respond(HtmlForm(v), FALSE, "none")

\* export default { async fetch(request, env, ctx) }, up to the first await
\* of a provider call
fetch(v, r) ==
    IF IsPreflight(r.method) THEN Respond(Preflight(v), FALSE, "none")
    ELSE IF RoutesUnsubscribe(v) /\ r.path = "/unsubscribe" /\ r.method = "GET"
         THEN UnsubscribeGet(v, r.query)
    ELSE IF RoutesUnsubscribe(v) /\ r.path = "/unsubscribe" /\ IsUnsubscribePost(r.method)
         THEN UnsubscribePost(v, r.body)
    ELSE IF MethodNotAllowed(r.method)
         THEN Respond(JsonError(v, 405, "Method not allowed"), FALSE, "none")
    ELSE IF RoutesFeedback(v) /\ r.path = "/feedback"
         THEN handleFeedback(v, r.body)
    ELSE handleSignup(v, r.body)

\* the handler resumed by the provider's answer
Resume(v, h, p) ==
    CASE h = "signup" -> handleSignupReply(v, p)
      [] h = "unsubscribe" -> handleUnsubscribeReply(v, p)
      [] h = "feedback" -> handleFeedbackReply(v, p)

\* ------------------------------------------------------------------- state
VARIABLES
    ver,        \* the deployed revision of the worker
    pc,         \* "idle", "await" (a provider call is pending) or "done"
    req,        \* the client request being handled
    resp,       \* the response returned to the client, NoResp if none
    escaped,    \* the exception that left fetch, "none" if none
    preqs,      \* the provider requests issued for this client request
    answer,     \* the provider's answer to the pending call
    bodyRead,   \* request.json() was called
    handler,    \* the handler function that was entered
    cors,       \* the module-level CORS_HEADERS object of the isolate
    slots,      \* the invocations of fetch the isolate runs concurrently
    checker,    \* the score-check job: "idle" or "running"
    checkRun,   \* the number of runs of the score-check job started so far
    alert_state,\* the state file
    lastWrite,  \* what the score-check job wrote last
    dispatcher, \* the email-dispatch job: "idle", "started", "read" or "done"
    readState,  \* what this run of the dispatch job read from the state file
    readDuring, \* what the score-check job was at when the file was read
    broadcasts, \* the broadcast sends this run of the dispatch job triggered
    audience,   \* the provider's audience: contact |-> its unsubscribed bit
    unsubscribedOk, \* the addresses unsubscribed with success and not subscribed since
    prevReq,    \* the request handled before this one
    prevResp,   \* the response it got
    prevAud     \* the audience when that request was over

\* the variables of the concurrent invocations
concVars == <<cors, slots>>

\* the variables of the two scheduled jobs
jobVars == <<checker, checkRun, alert_state, lastWrite, dispatcher, readState,
             readDuring, broadcasts>>

\* the variables of one invocation of the worker
workerVars == <<ver, pc, req, resp, escaped, preqs, answer, bodyRead, handler>>

\* the variables of the provider's audience
audVars == <<audience, unsubscribedOk, prevReq, prevResp, prevAud>>

vars == <<workerVars, concVars, jobVars, audVars>>

\* the bound on the invocations in flight at once
MaxConcurrent == 2

\* an invocation that has not started
NoSlot ==
    [pc |-> "idle", req |-> NoReq, resp |-> NoResp, escaped |-> "none",
     preqs |-> <<>>, answer |-> NoAnswer, handler |-> "none"]

InitConc ==
    /\ cors = CORS_HEADERS(ver)
    /\ slots = [i \in 1..MaxConcurrent |-> NoSlot]

\* the bound on the runs of the score-check job
MaxRuns == 3

\* nothing read yet
NoRecord == [k |-> "none", alert_needed |-> FALSE, run |-> 0]

\* the state file: valid JSON with a boolean field; run stands for its date
StateRecord(flag, run) == [k |-> "json", alert_needed |-> flag, run |-> run]

\* the audience with no contact
NoContacts == [e \in {} |-> FALSE]

InitAud ==
    /\ audience = NoContacts
    /\ unsubscribedOk = {}
    /\ prevReq = NoReq
    /\ prevResp = NoResp
    /\ prevAud = NoContacts

InitJobs ==
    /\ checker = "idle"
    /\ checkRun = 0
    /\ alert_state = StateRecord(FALSE, 0)
    /\ lastWrite = alert_state
    /\ dispatcher = "idle"
    /\ readState = NoRecord
    /\ readDuring = "none"
    /\ broadcasts = 0

Init ==
    /\ ver \in Versions
    /\ pc = "idle"
    /\ req = NoReq
    /\ resp = NoResp
    /\ escaped = "none"
    /\ preqs = <<>>
    /\ answer = NoAnswer
    /\ bodyRead = FALSE
    /\ handler = "none"
    /\ InitConc
    /\ InitJobs
    /\ InitAud

\* a client request arrives and fetch runs up to the provider call or to its end
Receive ==
    /\ pc = "idle"
    /\ \E r \in Requests :
         LET o == fetch(ver, r)
         IN  /\ req' = r
             /\ resp' = o.resp
             /\ escaped' = o.escaped
             /\ preqs' = IF o.preq = NoPReq THEN <<>> ELSE <<o.preq>>
             /\ pc' = IF o.preq = NoPReq THEN "done" ELSE "await"
             /\ bodyRead' = o.bodyRead
             /\ handler' = o.handler
    /\ UNCHANGED <<ver, answer, concVars, jobVars, audVars>>

\* the provider answers the pending call and the handler runs to its end
ProviderReply ==
    /\ pc = "await"
    /\ \E p \in ProviderAnswers :
         /\ answer' = p
         /\ resp' = Resume(ver, handler, p)
    /\ pc' = "done"
    /\ UNCHANGED <<ver, req, escaped, preqs, bodyRead, handler, concVars, jobVars, audVars>>

\* the invocation is over; the worker is ready for the next request
Finish ==
    /\ pc = "done"
    /\ pc' = "idle"
    /\ req' = NoReq
    /\ resp' = NoResp
    /\ escaped' = "none"
    /\ preqs' = <<>>
    /\ answer' = NoAnswer
    /\ bodyRead' = FALSE
    /\ handler' = "none"
    /\ UNCHANGED <<ver, concVars, jobVars, audVars>>

Next ==
    \/ Receive
    \/ ProviderReply
    \/ Finish

Spec == Init /\ [][Next]_vars

\* ---------------------------------------------- concurrent invocations
\* One isolate runs several invocations of fetch at once; each gives up
\* control at its await of the provider call only.
ConcRequests ==
    {[method |-> "POST", path |-> p, query |-> JsNull,
      body |-> BodyObj(JsStr(<<"a", "@", "a">>), JsStr(<<"a", "a", "a">>), JsUndef)] :
        p \in {"/", "/unsubscribe", "/feedback"}}
    \cup {[method |-> "POST", path |-> "/", query |-> JsNull, body |-> BadJson],
          [method |-> "OPTIONS", path |-> "/", query |-> JsNull, body |-> BadJson],
          [method |-> "PUT", path |-> "/other", query |-> JsNull, body |-> BadJson],
          [method |-> "GET", path |-> "/unsubscribe", query |-> JsStr(<<"a", "@", "a">>),
           body |-> BadJson]}

ConcAnswers ==
    {NetworkError}
    \cup {[neterr |-> FALSE, status |-> st, body |-> [k |-> "json", message |-> JsUndef]] :
            st \in {200, 404}}
    \cup {[neterr |-> FALSE, status |-> 409,
           body |-> [k |-> "json", message |-> JsStr(ALREADY_EXISTS)]],
          [neterr |-> FALSE, status |-> 500, body |-> [k |-> "badjson", message |-> JsUndef]]}

\* mutant: handling a request writes its path into the module-level object
CorsAfterEcho(c, r) == [c EXCEPT !.acao = r.path]

\* the module-level object after fetch has handled r: no statement of fetch or
\* of a handler assigns to CORS_HEADERS or to a member of it
CorsAfter(c, r) == c

\* headers: {...CORS_HEADERS, ...} and headers: CORS_HEADERS copy the members
\* the module-level object has when the Response is built
WithCors(r, c) == IF r.kind = "none" THEN r ELSE [r EXCEPT !.cors = c]

\* invocation i starts and runs up to its provider call or to its end
ConcReceive ==
    \E i \in 1..MaxConcurrent :
        /\ slots[i].pc = "idle"
        /\ \E r \in ConcRequests :
             LET o == fetch(ver, r)
             IN  /\ slots' = [slots EXCEPT ![i] =
                       [pc |-> IF o.preq = NoPReq THEN "done" ELSE "await",
                        req |-> r,
                        resp |-> WithCors(o.resp, cors),
                        escaped |-> o.escaped,
                        preqs |-> IF o.preq = NoPReq THEN <<>> ELSE <<o.preq>>,
                        answer |-> NoAnswer,
                        handler |-> o.handler]]
                 /\ cors' = CorsAfter(cors, r)
        /\ UNCHANGED <<workerVars, jobVars, audVars>>

\* the provider answers invocation i, which runs to its end
ConcProviderReply ==
    \E i \in 1..MaxConcurrent :
        /\ slots[i].pc = "await"
        /\ \E p \in ConcAnswers :
             slots' = [slots EXCEPT ![i].pc = "done",
                                    ![i].answer = p,
                                    ![i].resp = WithCors(Resume(ver, slots[i].handler, p), cors)]
        /\ cors' = CorsAfter(cors, slots[i].req)
        /\ UNCHANGED <<workerVars, jobVars, audVars>>

\* invocation i is over
ConcFinish ==
    \E i \in 1..MaxConcurrent :
        /\ slots[i].pc = "done"
        /\ slots' = [slots EXCEPT ![i] = NoSlot]
        /\ UNCHANGED <<workerVars, cors, jobVars, audVars>>

NextConc ==
    \/ ConcReceive
    \/ ConcProviderReply
    \/ ConcFinish

SpecConc == Init /\ [][NextConc]_vars

\* ---------------------------------------------------- the scheduled jobs
\* The score-check job persists the alert-needed flag in the state file; the
\* email-dispatch job reads it and, if it is set, triggers a broadcast send.
\* Each job is started by its own schedule; the file is not locked.

\* mutant: the dispatcher sends whatever the flag is
ShouldSendAlways(state) == TRUE

\* the dispatcher sends if the flag it read is set
ShouldSend(state) == state.alert_needed

\* mutant: the file is read only while the score-check job is not running
MayReadWhenIdle(c) == c = "idle"

\* the dispatcher may read the file whatever the score-check job is at: no
\* synchronization primitive connects the jobs
MayRead(c) == c \in {"idle", "running"}

\* the schedule starts a run of the score-check job
CheckStart ==
    /\ checker = "idle"
    /\ checkRun < MaxRuns
    /\ checker' = "running"
    /\ checkRun' = checkRun + 1
    /\ UNCHANGED <<alert_state, lastWrite, dispatcher, readState, readDuring, broadcasts>>
    /\ UNCHANGED <<workerVars, concVars, audVars>>

\* the score-check job has queried the statistics and persists the flag
CheckWrite ==
    /\ checker = "running"
    /\ \E flag \in BOOLEAN :
         /\ alert_state' = StateRecord(flag, checkRun)
         /\ lastWrite' = StateRecord(flag, checkRun)
    /\ checker' = "idle"
    /\ UNCHANGED <<checkRun, dispatcher, readState, readDuring, broadcasts>>
    /\ UNCHANGED <<workerVars, concVars, audVars>>

\* the schedule starts a run of the email-dispatch job
DispatchStart ==
    /\ dispatcher = "idle"
    /\ dispatcher' = "started"
    /\ readState' = NoRecord
    /\ readDuring' = "none"
    /\ broadcasts' = 0
    /\ UNCHANGED <<checker, checkRun, alert_state, lastWrite>>
    /\ UNCHANGED <<workerVars, concVars, audVars>>

\* the dispatch job reads the state file
DispatchRead ==
    /\ dispatcher = "started"
    /\ MayRead(checker)
    /\ readState' = alert_state
    /\ readDuring' = checker
    /\ dispatcher' = "read"
    /\ UNCHANGED <<checker, checkRun, alert_state, lastWrite, broadcasts>>
    /\ UNCHANGED <<workerVars, concVars, audVars>>

\* the dispatch job triggers the broadcast send, or ends without one
DispatchSend ==
    /\ dispatcher = "read"
    /\ broadcasts' = IF ShouldSend(readState) THEN broadcasts + 1 ELSE broadcasts
    /\ dispatcher' = "done"
    /\ UNCHANGED <<checker, checkRun, alert_state, lastWrite, readState, readDuring>>
    /\ UNCHANGED <<workerVars, concVars, audVars>>

\* the run of the dispatch job is over
DispatchEnd ==
    /\ dispatcher = "done"
    /\ dispatcher' = "idle"
    /\ UNCHANGED <<checker, checkRun, alert_state, lastWrite, readState, readDuring,
                   broadcasts>>
    /\ UNCHANGED <<workerVars, concVars, audVars>>

NextJobs ==
    \/ CheckStart
    \/ CheckWrite
    \/ DispatchStart
    \/ DispatchRead
    \/ DispatchSend
    \/ DispatchEnd

SpecJobs == Init /\ [][NextJobs]_vars

\* ------------------------------------------- the worker and the audience
\* The worker handles subscribe and unsubscribe requests one at a time
\* against a provider that keeps the audience: it rejects the creation of a
\* contact that exists with an 'already exists' error, answers 404 to the
\* PATCH of a contact that does not exist, and keeps each contact's
\* unsubscribed bit.
AudEmails == {<<"a", "@">>, <<"A", "@">>, <<" ", "a", "@">>, <<"@", "a">>, <<"a">>}

AudRequests ==
    {[method |-> "POST", path |-> p, query |-> JsNull,
      body |-> BodyObj(JsStr(e), JsUndef, JsUndef)] :
        p \in {"/", "/unsubscribe"}, e \in AudEmails}
    \cup {[method |-> "GET", path |-> "/unsubscribe", query |-> JsStr(e), body |-> BadJson] :
            e \in AudEmails}

\* the provider reads the contact of a PATCH from the path of the URL
RECURSIVE decodeURIComponent(_)
decodeURIComponent(s) ==
    IF s = <<>> THEN <<>>
    ELSE IF Len(s) >= 3 /\ SubSeq(s, 1, 3) = <<"%", "4", "0">>
         THEN <<"@">> \o decodeURIComponent(SubSeq(s, 4, Len(s)))
    ELSE IF Len(s) >= 3 /\ SubSeq(s, 1, 3) = <<"%", "2", "0">>
         THEN <<" ">> \o decodeURIComponent(SubSeq(s, 4, Len(s)))
    ELSE <<Head(s)>> \o decodeURIComponent(Tail(s))

\* the contact a provider request is about
ContactOf(q) == IF q.method = "PATCH" THEN decodeURIComponent(q.urlEmail) ELSE q.email

\* the provider's answer to request q when the audience is aud
ProviderAnswer(aud, q) ==
    LET e == ContactOf(q)
    IN  IF q.method = "POST"
        THEN IF e \in DOMAIN aud
             THEN [neterr |-> FALSE, status |-> 409,
                   body |-> [k |-> "json", message |-> JsStr(ALREADY_EXISTS)]]
             ELSE [neterr |-> FALSE, status |-> 200,
                   body |-> [k |-> "json", message |-> JsUndef]]
        ELSE IF e \in DOMAIN aud
             THEN [neterr |-> FALSE, status |-> 200,
                   body |-> [k |-> "json", message |-> JsUndef]]
             ELSE [neterr |-> FALSE, status |-> 404,
                   body |-> [k |-> "json", message |-> JsUndef]]

\* the audience after the provider has handled request q
AudienceAfter(aud, q) ==
    LET e == ContactOf(q)
    IN  IF q.method = "POST" /\ e \notin DOMAIN aud
        THEN [k \in DOMAIN aud \cup {e} |-> IF k = e THEN q.unsubscribed = "true" ELSE aud[k]]
        ELSE IF q.method = "PATCH" /\ e \in DOMAIN aud
             THEN [aud EXCEPT ![e] = q.unsubscribed = "true"]
        ELSE aud

\* POST / is the subscribe request
IsSubscribe(r) == r.method = "POST" /\ r.path = "/"

\* GET and POST /unsubscribe are the unsubscribe requests
IsUnsubscribe(r) == r.path = "/unsubscribe" /\ r.method \in {"GET", "POST"}

\* the address a request is for, as the provider knows it
AddressOf(r) ==
    LET v == IF r.method = "GET" THEN r.query ELSE r.body.email
    IN  ToLowerCase(Trim(v.s))

\* a request arrives and fetch runs up to the provider call or to its end
AudReceive ==
    /\ pc = "idle"
    /\ \E r \in AudRequests :
         LET o == fetch(ver, r)
         IN  /\ req' = r
             /\ resp' = o.resp
             /\ escaped' = o.escaped
             /\ preqs' = IF o.preq = NoPReq THEN <<>> ELSE <<o.preq>>
             /\ pc' = IF o.preq = NoPReq THEN "done" ELSE "await"
             /\ bodyRead' = o.bodyRead
             /\ handler' = o.handler
             /\ unsubscribedOk' = IF IsSubscribe(r) THEN unsubscribedOk \ {AddressOf(r)}
                                  ELSE unsubscribedOk
    /\ UNCHANGED <<ver, answer, audience, prevReq, prevResp, prevAud, concVars, jobVars>>

\* the provider handles the pending call, or cannot be reached, and the
\* handler runs to its end
AudProviderReply ==
    /\ pc = "await"
    /\ \E reachable \in BOOLEAN :
         LET p == IF reachable THEN ProviderAnswer(audience, preqs[1]) ELSE NetworkError
             r == Resume(ver, handler, p)
         IN  /\ answer' = p
             /\ audience' = IF reachable THEN AudienceAfter(audience, preqs[1]) ELSE audience
             /\ resp' = r
             /\ unsubscribedOk' =
                    IF IsUnsubscribe(req) /\ r.status = 200 /\ r.success = "true"
                    THEN unsubscribedOk \cup {AddressOf(req)}
                    ELSE unsubscribedOk
    /\ pc' = "done"
    /\ UNCHANGED <<ver, req, escaped, preqs, bodyRead, handler, prevReq, prevResp,
                   prevAud, concVars, jobVars>>

\* the invocation is over; the worker is ready for the next request
AudFinish ==
    /\ pc = "done"
    /\ pc' = "idle"
    /\ prevReq' = req
    /\ prevResp' = resp
    /\ prevAud' = audience
    /\ req' = NoReq
    /\ resp' = NoResp
    /\ escaped' = "none"
    /\ preqs' = <<>>
    /\ answer' = NoAnswer
    /\ bodyRead' = FALSE
    /\ handler' = "none"
    /\ UNCHANGED <<ver, audience, unsubscribedOk, concVars, jobVars>>

NextAud ==
    \/ AudReceive
    \/ AudProviderReply
    \/ AudFinish

SpecAud == Init /\ [][NextAud]_vars


\* ------------------------------------------------------------------ claims
\* the value has a '@' in it (a string, or an array with the element '@')
ContainsAt(v) ==
    \/ v.k = "str" /\ Includes(v.s, <<"@">>)
    \/ v.k = "arr" /\ ArrayIncludes(v.s, "@")

\* the provider's answer has arrived and the handler has run to its end
Answered == pc = "done" /\ preqs # <<>>

\* the provider's error message contains 'already exists'
SaysAlreadyExists(p) ==
    /\ p.body.k = "json"
    /\ p.body.message.k = "str"
    /\ \E i \in 1..(Len(p.body.message.s) - 1) :
         p.body.message.s[i] = "already" /\ p.body.message.s[i + 1] = "exists"

\* the two special-cased provider failures
SpecialCase ==
    \/ handler = "unsubscribe" /\ answer.status = 404
    \/ handler = "signup" /\ SaysAlreadyExists(answer)

\* C1: every POST / with a JSON body whose email is absent, empty after
\* trimming or without '@' is answered 400 {error:'Invalid email address'}
\* and no provider request is issued.
C1_SubscribeValidation ==
    (/\ pc # "idle"
     /\ req.method = "POST" /\ req.path = "/"
     /\ req.body.k # "badjson"
     /\ ~ContainsAt(req.body.email))
    => (/\ pc = "done"
        /\ resp.status = 400 /\ resp.error = "Invalid email address"
        /\ preqs = <<>>)

\* C2: in the revisions that route /unsubscribe, every GET with an email
\* query value and every POST with an email body member, the value having no
\* '@' (the empty string included), is answered 400 {error:'Invalid email
\* address'} and no PATCH is issued.
C2_UnsubscribeValidation ==
    (/\ pc # "idle"
     /\ RoutesUnsubscribe(ver)
     /\ req.path = "/unsubscribe"
     /\ \/ req.method = "GET" /\ req.query.k = "str" /\ ~ContainsAt(req.query)
        \/ /\ req.method = "POST" /\ req.body.k = "obj"
           /\ req.body.email.k # "undef" /\ ~ContainsAt(req.body.email))
    => (/\ pc = "done"
        /\ resp.status = 400 /\ resp.error = "Invalid email address"
        /\ preqs = <<>>)

\* the e-mail string a request to /unsubscribe carries, <<>> if none
CarriedEmail ==
    IF req.method = "GET" THEN req.query
    ELSE IF req.method = "POST" /\ req.body.k = "obj" THEN req.body.email
    ELSE JsUndef

\* C3: a GET or POST to /unsubscribe carrying an e-mail string with '@'
\* issues exactly one provider request, a PATCH with unsubscribed:true, and
\* never a contact creation with unsubscribed:false.
C3_UnsubscribeRouting ==
    (/\ pc # "idle"
     /\ req.path = "/unsubscribe"
     /\ req.method \in {"GET", "POST"}
     /\ CarriedEmail.k = "str" /\ ContainsAt(CarriedEmail))
    => (/\ Len(preqs) = 1
        /\ preqs[1].method = "PATCH"
        /\ preqs[1].unsubscribed = "true")

\* C4: whenever the provider answers the unsubscribe PATCH with 404, the
\* client gets 200 {success:true, message:'You have been unsubscribed.'},
\* whatever the body of the 404.
C4_UnknownContactSucceeds ==
    (/\ Answered /\ handler = "unsubscribe"
     /\ ~answer.neterr /\ answer.status = 404)
    => (/\ resp.status = 200 /\ resp.success = "true"
        /\ resp.message = "You have been unsubscribed.")

ParseFailed ==
    /\ ~answer.neterr
    /\ answer.body.k = "badjson"
    /\ handler = "signup" \/ answer.status \notin 200..299

\* the provider call failed: a network error, a non-OK status that is not
\* special-cased, or a body the worker could not parse
UpstreamFailed ==
    \/ answer.neterr
    \/ ~answer.neterr /\ answer.status \notin 200..299 /\ ~SpecialCase
    \/ ParseFailed

\* C6: a 400 comes from the client's input alone, before any provider call;
\* every failure of the provider call is reported as 500, never as 400.
C6_ErrorCategorisation ==
    /\ (pc = "done" /\ resp.status = 400) => preqs = <<>>
    /\ (Answered /\ UpstreamFailed) => resp.status = 500

\* C7: for every method, path and body the handler ends by returning a
\* response with status 200, 400, 405 or 500; no exception leaves fetch.
C7_Totality ==
    pc = "done" => (escaped = "none" /\ resp.status \in {200, 400, 405, 500})

\* C8: one client request issues at most one provider request, and after a
\* failed provider call (network error or non-OK status) that is not one of
\* the two special cases the client request fails with 500.
C8_SingleStepNoRetry ==
    /\ Len(preqs) <= 1
    /\ (/\ Answered
        /\ answer.neterr \/ answer.status \notin 200..299
        /\ answer.neterr \/ ~SpecialCase)
       => resp.status = 500

\* C9: every request whose method is neither POST nor OPTIONS, other than
\* GET /unsubscribe, is answered 405 {error:'Method not allowed'} without
\* the body being read, a handler entered or a provider request issued.
C9_MethodNotAllowed ==
    (/\ pc # "idle"
     /\ req.method \notin {"POST", "OPTIONS"}
     /\ ~(req.method = "GET" /\ req.path = "/unsubscribe"))
    => (/\ pc = "done"
        /\ escaped = "none"
        /\ resp.status = 405 /\ resp.kind = "json" /\ resp.error = "Method not allowed"
        /\ resp.success = Absent
        /\ ~bodyRead
        /\ handler = "none"
        /\ preqs = <<>>)

C9_Witness ==
    /\ pc = "done"
    /\ ver = "part_000"
    /\ req.method = "PUT" /\ req.path = "/unsubscribe"
    /\ req.body.k = "obj" /\ req.body.email = JsStr(<<"a", "@", "a">>)
    /\ resp.status = 405

\* C10: an OPTIONS request to any path is answered at once with an empty
\* body and the CORS headers; the body is not read, no handler is entered
\* and no provider request is issued.
C10_Preflight ==
    (pc # "idle" /\ req.method = "OPTIONS")
    => (/\ pc = "done"
        /\ escaped = "none"
        /\ resp.status = 200 /\ resp.kind = "empty"
        /\ resp.cors.acao = "*"
        /\ resp.cors.acam \in {"POST, GET, OPTIONS", "POST, OPTIONS"}
        /\ resp.cors.acah = "Content-Type"
        /\ ~bodyRead
        /\ handler = "none"
        /\ preqs = <<>>)

C10_Witness ==
    /\ pc = "done"
    /\ req.method = "OPTIONS" /\ req.path = "/unsubscribe"
    /\ req.body.k = "obj" /\ req.body.email = JsStr(<<"a", "@", "a">>)
    /\ resp.kind = "empty" /\ resp.cors.acao = "*"


\* the response is one of the two JSON envelopes, tied to its status
Envelope(r) ==
    /\ r.kind = "json"
    /\ r.status \in {200, 400, 405, 500}
    /\ (r.status = 200) <=> (r.success = "true" /\ r.message # Absent)
    /\ (r.status \in {400, 405, 500}) <=> (r.error # Absent)
    /\ ~(r.success # Absent /\ r.error # Absent)
    /\ (r.error # Absent) => r.message = Absent

\* C11 as stated: every response to a request other than OPTIONS is a JSON
\* object {success:true, message} exactly when the status is 200 and
\* {error} exactly when it is 400, 405 or 500.
C11_EnvelopeOriginal ==
    (pc = "done" /\ escaped = "none" /\ req.method # "OPTIONS") => Envelope(resp)

\* the request the /unsubscribe branch answers with the HTML form
AsksForForm ==
    /\ ver \in {"part_000", "part_001a"}
    /\ req.method = "GET" /\ req.path = "/unsubscribe"
    /\ req.query.k = "null" \/ req.query.s = <<>>

\* C11 amended: every response to a request other than OPTIONS, and other
\* than the HTML form (status 200, text/html) returned to GET /unsubscribe
\* without a non-empty email parameter, is {success:true, message} exactly
\* when the status is 200 and {error} exactly when it is 400, 405 or 500.
C11_Envelope ==
    (pc = "done" /\ escaped = "none" /\ req.method # "OPTIONS")
    => IF AsksForForm
       THEN resp.kind = "html" /\ resp.status = 200 /\ resp.success = Absent
       ELSE Envelope(resp)

C11_Witness ==
    /\ pc = "done" /\ preqs # <<>>
    /\ handler = "unsubscribe" /\ answer.status = 404 /\ answer.body.k = "json"
    /\ resp.status = 200 /\ resp.success = "true"
    /\ resp.message = "You have been unsubscribed."

\* C17: the contact-creation request is issued only for POST requests, and
\* a POST to a path other than /unsubscribe and /feedback creates a contact
\* only if the path is exactly '/'.
C17_SubscribeOnlyAtRoot ==
    \A i \in 1..Len(preqs) :
        (preqs[i].method = "POST" /\ preqs[i].endpoint = "contacts")
        => /\ req.method = "POST"
           /\ req.path \in {"/", "/unsubscribe", "/feedback"}


\* a POST /feedback request on a revision that routes it, with readable JSON
FeedbackRequest ==
    /\ pc # "idle"
    /\ RoutesFeedback(ver)
    /\ req.method = "POST" /\ req.path = "/feedback"
    /\ req.body.k # "badjson"

\* the message is there and its trimmed length is at least 3
MessageLongEnough(body) ==
    /\ body.k = "obj"
    /\ body.message.k = "str"
    /\ Len(Trim(body.message.s)) >= 3

\* C12: a POST /feedback whose message is absent or shorter than 3 after
\* trimming is answered 400 'Please enter a message' with no e-mail sent;
\* every other one sends one e-mail to the administrator, whatever email and
\* type are, and is answered 200 when the provider answers OK and 500
\* 'Failed to send feedback' when it does not.
C12_FeedbackForwarding ==
    FeedbackRequest =>
        IF ~MessageLongEnough(req.body)
        THEN /\ pc = "done"
             /\ resp.status = 400 /\ resp.error = "Please enter a message"
             /\ preqs = <<>>
        ELSE /\ Len(preqs) = 1
             /\ preqs[1].endpoint = "emails" /\ preqs[1].to = AdminEmail(ver)
             /\ (pc = "done" /\ ~answer.neterr)
                => IF Ok(answer)
                   THEN resp.status = 200 /\ resp.success = "true"
                   ELSE resp.status = 500 /\ resp.error = "Failed to send feedback"

\* the characters escapeHtml replaces
HtmlSpecial == {"&", "<", ">", "\"", "'"}

\* the number of places of s that hold c
Count(s, c) == Cardinality({i \in 1..Len(s) : s[i] = c})

\* no character of HtmlSpecial stands in the fragment as itself
NoRawSpecial(f) == \A i \in 1..Len(f) : f[i] \notin HtmlSpecial

\* C13: in the html of the e-mail a feedback request sends, no & < > " ' of
\* the user's message, type or email stands as itself, and the only markup is
\* one '<br>' for each newline of the message.
C13_FeedbackEscaped ==
    \A i \in 1..Len(preqs) :
        preqs[i].endpoint = "emails"
        => /\ NoRawSpecial(preqs[i].html.type)
           /\ NoRawSpecial(preqs[i].html.message)
           /\ NoRawSpecial(preqs[i].html.from)
           /\ Count(preqs[i].html.message, "<br>") = Count(req.body.message.s, "\n")
           /\ Count(preqs[i].html.type, "<br>") = 0
           /\ Count(preqs[i].html.from, "<br>") = 0


\* what invocation of request r is at when it runs alone: p is NoAnswer while
\* its provider call is pending or if it made none
Alone(v, r, p) ==
    LET o == fetch(v, r)
    IN  [pc |-> IF o.preq = NoPReq THEN "done"
                ELSE IF p = NoAnswer THEN "await" ELSE "done",
         req |-> r,
         resp |-> IF o.preq = NoPReq \/ p = NoAnswer THEN o.resp
                  ELSE Resume(v, o.handler, p),
         escaped |-> o.escaped,
         preqs |-> IF o.preq = NoPReq THEN <<>> ELSE <<o.preq>>,
         answer |-> p,
         handler |-> o.handler]

C15_AlertGating ==
    /\ [](dispatcher \in {"started", "read"} => broadcasts = 0)
    /\ [](dispatcher = "done" => broadcasts = IF readState.alert_needed THEN 1 ELSE 0)
    /\ [][dispatcher = "started" /\ dispatcher' = "read" => readState' = lastWrite]_vars

\* a run of the dispatch job has sent the broadcast for a flag that a run of
\* the score-check job wrote
C15_Witness ==
    /\ dispatcher = "done"
    /\ readState.k = "json" /\ readState.run > 0 /\ readState.alert_needed
    /\ broadcasts = 1

\* C16: nothing keeps the two jobs from running at the same time: each
\* schedule can start its job whatever the other job is at, and a started
\* dispatch job can read the file while the score-check job runs; the file
\* always holds what its single writer, the score-check job, wrote last.
C16_NoMutualExclusion ==
    /\ dispatcher = "idle" => ENABLED DispatchStart
    /\ dispatcher = "started" => ENABLED DispatchRead
    /\ (checker = "idle" /\ checkRun < MaxRuns) => ENABLED CheckStart
    /\ checker = "running" => ENABLED CheckWrite
    /\ alert_state = lastWrite

\* the dispatch job has read the file while a run of the score-check job had
\* started and not yet written it
C16_Witness ==
    /\ dispatcher = "read"
    /\ readDuring = "running"
    /\ checker = "running"
    /\ readState.run < checkRun


\* the worker has answered 200 {success:true}
Success == pc = "done" /\ resp.status = 200 /\ resp.success = "true"

\* the audience holds the contact with unsubscribed = false
Subscribed(e) == e \in DOMAIN audience /\ ~audience[e]

\* C18: whenever a subscribe for address e is answered 200 {success:true},
\* the audience holds contact e with unsubscribed = false.
C18_SubscribeMeansSubscribed ==
    (Success /\ IsSubscribe(req)) => Subscribed(AddressOf(req))

\* C19: from the 200 {success:true} to an unsubscribe for address e until
\* the next subscribe request for e, the audience holds no contact e with
\* unsubscribed = false.
C19_UnsubscribeMeansNotSubscribed ==
    \A e \in unsubscribedOk : ~Subscribed(e)

\* the request carries an address that validation accepts
ValidRequest(r) ==
    /\ IsSubscribe(r) \/ IsUnsubscribe(r)
    /\ Includes(AddressOf(r), <<"@">>)

\* C20: a valid subscribe or unsubscribe request is answered 200
\* {success:true} whenever the provider is reachable, and one that repeats
\* the request answered so before it leaves the audience as that one left it.
C20_Idempotence ==
    (pc = "done" /\ ValidRequest(req) /\ ~answer.neterr)
    => /\ resp.status = 200 /\ resp.success = "true"
       /\ (prevReq = req /\ prevResp.status = 200) => audience = prevAud


\* the e-mail value the handler entered was given
EmailGiven ==
    IF handler = "unsubscribe" THEN CarriedEmail
    ELSE IF handler = "signup" /\ req.body.k = "obj" THEN req.body.email
    ELSE JsUndef

\* no upper-case letter, no white space at either end
IsNormalised(n) ==
    /\ \A i \in 1..Len(n) : n[i] # "A"
    /\ n # <<>> => (n[1] \notin WhiteSpace /\ n[Len(n)] \notin WhiteSpace)

\* C21: for the e-mail string of a subscribe or unsubscribe, the validation
\* of handleSignup accepts it exactly if that of handleUnsubscribe does, and
\* both then name the provider the same contact, the string trimmed and
\* lower-cased; the request in hand names that contact.
C21_SameNormalisation ==
    (pc # "idle" /\ EmailGiven.k = "str")
    => LET s == EmailGiven.s
           sub == handleSignup(ver, BodyObj(JsStr(s), JsUndef, JsUndef))
           uns == handleUnsubscribe(ver, JsStr(s), FALSE)
       IN  /\ (sub.preq # NoPReq) <=> (uns.preq # NoPReq)
           /\ (preqs # <<>>) <=> (sub.preq # NoPReq)
           /\ preqs # <<>>
              => /\ ContactOf(sub.preq) = ContactOf(uns.preq)
                 /\ ContactOf(preqs[1]) = ContactOf(sub.preq)
                 /\ ContactOf(preqs[1]) = ToLowerCase(Trim(s))
                 /\ IsNormalised(ContactOf(preqs[1]))

\* an unsubscribe of ' A@' has sent the PATCH for the contact a@
C21_Witness ==
    /\ pc = "await" /\ handler = "unsubscribe"
    /\ EmailGiven = JsStr(<<" ", "A", "@">>)
    /\ preqs[1].method = "PATCH"
    /\ preqs[1].urlEmail = <<"a", "%", "4", "0">>

\* C22: every response the worker returns carries the three entries of
\* CORS_HEADERS, Access-Control-Allow-Origin '*' among them.
C22_CorsOnEveryResponse ==
    (pc = "done" /\ resp # NoResp)
    => /\ resp.cors = CORS_HEADERS(ver)
       /\ resp.cors.acao = "*"
       /\ resp.cors.acam = AllowMethods(ver)
       /\ resp.cors.acah = "Content-Type"

\* the HTML unsubscribe form has been returned with the headers
C22_Witness ==
    /\ pc = "done"
    /\ resp.kind = "html" /\ resp.status = 200
    /\ resp.cors.acao = "*"

\* an exception other than the parse error of the request body was raised
\* while handleSignup ran
SubscribeThrew ==
    /\ handler = "signup"
    /\ \/ req.body.k = "null"
       \/ req.body.k = "obj" /\ ~Nullish(req.body.email) /\ req.body.email.k # "str"
       \/ /\ Answered
          /\ \/ answer.neterr
             \/ answer.body.k = "badjson"
             \/ /\ ~Ok(answer)
                /\ \/ answer.body.k = "null"
                   \/ ~Nullish(answer.body.message) /\ answer.body.message.k # "str"

\* C23: in the first worker of part_001 a POST / or POST /unsubscribe whose
\* body is no JSON is answered 400 'Invalid request body' with no provider
\* request, and every other exception raised while a subscribe is handled is
\* answered 500 'Server error'.
C23_MalformedBody ==
    (ver = "part_001a" /\ pc = "done" /\ req.method = "POST")
    => /\ (req.path \in {"/", "/unsubscribe"} /\ req.body.k = "badjson")
          => /\ resp.status = 400 /\ resp.error = "Invalid request body"
             /\ preqs = <<>>
       /\ (req.body.k # "badjson" /\ SubscribeThrew)
          => resp.status = 500 /\ resp.error = "Server error"

====
